---- MODULE Spec2Model ----
(***************************************************************************)
(* Model of main.py: create_plan_pdf (the 5-page layout of a plan image),  *)
(* get_plan_analysis (the Gemini request) and main (the Streamlit script   *)
(* run that chains them and removes its temporary files).                  *)
(*                                                                         *)
(* Python's true division is modelled exactly: a quotient is a pair        *)
(* <<numerator, denominator>> with a positive denominator.                 *)
(***************************************************************************)
EXTENDS Integers, Sequences, FiniteSets

\* ------------------------------------------------------------------ bounds
\* Image sides range over 1..MaxDim (PIL never decodes a side of 0).
MaxDim == 4
\* page_size of a direct call to create_plan_pdf: sides in 1..MaxPage.
MaxPage == 3
\* The prompt is a string of at most MaxPromptLen characters.
MaxPromptLen == 2

\* ------------------------------------------------------- exact quotients
RInt(n) == <<n, 1>>
RMul(a, b) == <<a[1] * b[1], a[2] * b[2]>>
\* a / b, for b > 0
RDiv(a, b) == <<a[1] * b[2], a[2] * b[1]>>
RSub(a, b) == <<a[1] * b[2] - b[1] * a[2], a[2] * b[2]>>
RGt(a, b) == a[1] * b[2] > b[1] * a[2]
RLe(a, b) == a[1] * b[2] <= b[1] * a[2]
REq(a, b) == a[1] * b[2] = b[1] * a[2]

\* ------------------------------------------------------------ constants
\* reportlab's A4 is (210*mm, 297*mm); the page is measured in mm here.
A4 == <<210, 297>>

QuadKeys == {"upper_left", "upper_right", "lower_left", "lower_right"}

\* An alternative page order: the two middle quadrants exchanged.
quadrant_order_swapped == <<"upper_left", "lower_left", "upper_right", "lower_right">>

quadrant_order == <<"upper_left", "upper_right", "lower_left", "lower_right">>

quadrant_labels ==
    [upper_left  |-> "Page 2: Upper-Left Quadrant Detail",
     upper_right |-> "Page 3: Upper-Right Quadrant Detail",
     lower_left  |-> "Page 4: Lower-Left Quadrant Detail",
     lower_right |-> "Page 5: Lower-Right Quadrant Detail"]

FullCaption == "Page 1: Full Plan Overview"

\* ------------------------------------------------------- pure functions
\* An alternative bisection: every quadrant quad_width x quad_height, so an
\* odd side loses its last pixel column or row.
QuadrantsSymmetric(img_width, img_height) ==
    LET quad_width == img_width \div 2
        quad_height == img_height \div 2
    IN [upper_left  |-> <<0, 0, quad_width, quad_height>>,
        upper_right |-> <<quad_width, 0, 2 * quad_width, quad_height>>,
        lower_left  |-> <<0, quad_height, quad_width, 2 * quad_height>>,
        lower_right |-> <<quad_width, quad_height, 2 * quad_width, 2 * quad_height>>]

\* The four crop boxes (left, upper, right, lower) of an image.
Quadrants(img_width, img_height) ==
    LET quad_width == img_width \div 2
        quad_height == img_height \div 2
    IN [upper_left  |-> <<0, 0, quad_width, quad_height>>,
        upper_right |-> <<quad_width, 0, img_width, quad_height>>,
        lower_left  |-> <<0, quad_height, quad_width, img_height>>,
        lower_right |-> <<quad_width, quad_height, img_width, img_height>>]

\* Image.crop: the size of the crop of a box.
CropSize(box) == <<box[3] - box[1], box[4] - box[2]>>

\* An alternative layout: the branch test reversed.
ComputeLayoutReversed(width, height, pdf_width, pdf_height) ==
    LET aspect_ratio == <<width, height>>
        page_aspect_ratio == <<pdf_width, pdf_height>>
        wide == ~RGt(aspect_ratio, page_aspect_ratio)
        draw_width == IF wide THEN RInt(pdf_width)
                      ELSE RMul(RInt(pdf_height), aspect_ratio)
        draw_height == IF wide THEN RDiv(RInt(pdf_width), aspect_ratio)
                       ELSE RInt(pdf_height)
    IN [draw_width  |-> draw_width,
        draw_height |-> draw_height,
        x_offset    |-> RDiv(RSub(RInt(pdf_width), draw_width), RInt(2)),
        y_offset    |-> RDiv(RSub(RInt(pdf_height), draw_height), RInt(2))]

\* An alternative layout: the image always fills the page on both axes.
ComputeLayoutStretch(width, height, pdf_width, pdf_height) ==
    [draw_width  |-> RInt(pdf_width),
     draw_height |-> RInt(pdf_height),
     x_offset    |-> RDiv(RSub(RInt(pdf_width), RInt(pdf_width)), RInt(2)),
     y_offset    |-> RDiv(RSub(RInt(pdf_height), RInt(pdf_height)), RInt(2))]

\* The draw rectangle of a width x height image on a page, for height > 0.
ComputeLayout(width, height, pdf_width, pdf_height) ==
    LET aspect_ratio == <<width, height>>
        page_aspect_ratio == <<pdf_width, pdf_height>>
        wide == RGt(aspect_ratio, page_aspect_ratio)
        draw_width == IF wide THEN RInt(pdf_width)
                      ELSE RMul(RInt(pdf_height), aspect_ratio)
        draw_height == IF wide THEN RDiv(RInt(pdf_width), aspect_ratio)
                       ELSE RInt(pdf_height)
    IN [draw_width  |-> draw_width,
        draw_height |-> draw_height,
        x_offset    |-> RDiv(RSub(RInt(pdf_width), draw_width), RInt(2)),
        y_offset    |-> RDiv(RSub(RInt(pdf_height), draw_height), RInt(2))]

\* str.strip over the two-character alphabet {" ", "a"}.
RECURSIVE LStrip(_)
LStrip(s) == IF s # <<>> /\ Head(s) = " " THEN LStrip(Tail(s)) ELSE s

RECURSIVE RStrip(_)
RStrip(s) == IF s # <<>> /\ s[Len(s)] = " " THEN RStrip(SubSeq(s, 1, Len(s) - 1)) ELSE s

Strip(s) == RStrip(LStrip(s))

Prompts == UNION {[1..n -> {" ", "a"}] : n \in 0..MaxPromptLen}

PageSizes == (1..MaxPage) \X (1..MaxPage)

\* ---------------------------------------------------------------- state
VARIABLES
    entry,            \* the function the run starts in
    pc,               \* the position of the run
    gemini_api_key,   \* "" when neither the environment nor the form gives one
    uploaded_file,    \* main: "none", or the kind of the uploaded bytes
    button,           \* main: whether "Generate PDF and Analyze" was pressed
    custom_prompt,    \* the prompt text
    image_mode,       \* the decoded image's mode
    image_size,       \* <<img_width, img_height>> of the image at image_path
    page_size,        \* the page_size argument of create_plan_pdf
    image_file,       \* storage at image_path: "missing", "corrupt", "truncated", "image"
    pdf_file,         \* storage at output_pdf_path: "absent", "empty", "document", "directory"
    quadrants,        \* <<>> or <<the quadrants dict>>
    cropped,          \* <<>> or <<width, height>> of cropped_quad
    layout,           \* <<>> or <<the draw rectangle just computed>>
    quad_index,       \* how many quadrants the loop has finished
    pages,            \* the pages shown on the canvas so far
    pdf_created,      \* <<>> or <<the value create_plan_pdf returned>>
    client,           \* whether genai.Client was constructed
    requests,         \* the number of generate_content calls
    analysis_response,\* <<>> or <<the string get_plan_analysis returned>>
    download_offered, \* main: whether the download button was shown
    escaped           \* "none", or the function an exception propagated out of

inputs == <<entry, gemini_api_key, uploaded_file, button, custom_prompt,
            image_mode, image_size, page_size>>
storage == <<image_file, pdf_file>>
pdfLocals == <<quadrants, cropped, layout, quad_index, pages>>
analysisLocals == <<client, requests>>
vars == <<inputs, pc, storage, pdfLocals, pdf_created, analysisLocals,
          analysis_response, download_offered, escaped>>

ImageSizes == (1..MaxDim) \X (1..MaxDim)

InitLocals ==
    /\ quadrants = <<>>
    /\ cropped = <<>>
    /\ layout = <<>>
    /\ quad_index = 0
    /\ pages = <<>>
    /\ pdf_created = <<>>
    /\ client = FALSE
    /\ requests = 0
    /\ analysis_response = <<>>
    /\ download_offered = FALSE
    /\ escaped = "none"

\* python main.py: the Streamlit script run.
InitMain ==
    /\ entry = "main"
    /\ pc = "main_key"
    /\ gemini_api_key \in {"", "k"}
    /\ uploaded_file \in {"none", "corrupt", "truncated", "image"}
    /\ button \in BOOLEAN
    /\ custom_prompt \in Prompts
    /\ image_mode \in {"RGB", "L"}
    /\ image_size \in ImageSizes
    /\ page_size = A4
    /\ image_file = "missing"
    /\ pdf_file = "absent"

\* A call of create_plan_pdf(image_path, output_pdf_path, page_size).
InitCreate ==
    /\ entry = "create_plan_pdf"
    /\ pc = "pdf_open"
    /\ gemini_api_key = ""
    /\ uploaded_file = "none"
    /\ button = FALSE
    /\ custom_prompt = <<>>
    /\ image_mode \in {"RGB", "L"}
    /\ image_size \in ImageSizes
    /\ page_size \in PageSizes
    /\ image_file \in {"missing", "corrupt", "truncated", "image"}
    /\ pdf_file = "absent"

\* A call of get_plan_analysis(gemini_api_key, pdf_path, prompt_text).
InitAnalysis ==
    /\ entry = "get_plan_analysis"
    /\ pc = "an_checks"
    /\ gemini_api_key \in {"", "k"}
    /\ uploaded_file = "none"
    /\ button = FALSE
    /\ custom_prompt \in Prompts
    /\ image_mode = "RGB"
    /\ image_size = <<1, 1>>
    /\ page_size = A4
    /\ image_file = "missing"
    /\ pdf_file \in {"absent", "document", "directory"}

Init == InitLocals /\ (InitMain \/ InitCreate \/ InitAnalysis)

\* An exception leaves `fn` and, main having no handler, ends the run.
Raise(fn) ==
    /\ escaped' = fn
    /\ pc' = "crashed"

\* ------------------------------------------------------- create_plan_pdf
ReturnFromCreate(value) ==
    /\ pdf_created' = <<value>>
    /\ pc' = IF entry = "main" THEN "main_created" ELSE "done"

\* Image.open inside the try; both handlers return False.
PdfOpen ==
    /\ pc = "pdf_open"
    /\ IF image_file \in {"missing", "corrupt"}
       THEN ReturnFromCreate(FALSE)
       ELSE pc' = "pdf_convert" /\ UNCHANGED pdf_created
    /\ UNCHANGED <<inputs, storage, pdfLocals, analysisLocals,
                   analysis_response, download_offered, escaped>>

\* convert('RGB') decodes the pixel data, which a truncated file lacks.
PdfConvert ==
    /\ pc = "pdf_convert"
    /\ IF image_mode # "RGB"
       THEN IF image_file = "truncated"
            THEN Raise("create_plan_pdf") /\ UNCHANGED image_mode
            ELSE image_mode' = "RGB" /\ pc' = "pdf_quadrants" /\ UNCHANGED escaped
       ELSE pc' = "pdf_quadrants" /\ UNCHANGED <<image_mode, escaped>>
    /\ UNCHANGED <<entry, gemini_api_key, uploaded_file, button, custom_prompt,
                   image_size, page_size, storage, pdfLocals, pdf_created,
                   analysisLocals, analysis_response, download_offered>>

\* The quadrants dict and the canvas, which writes nothing before save().
PdfQuadrants ==
    /\ pc = "pdf_quadrants"
    /\ quadrants' = <<Quadrants(image_size[1], image_size[2])>>
    /\ pc' = "pdf_full_layout"
    /\ UNCHANGED <<inputs, storage, cropped, layout, quad_index, pages,
                   pdf_created, analysisLocals, analysis_response,
                   download_offered, escaped>>

\* Page 1: the draw rectangle of the full image (a decoded image has no
\* side of 0, so img_height divides).
PdfFullLayout ==
    /\ pc = "pdf_full_layout"
    /\ layout' = <<ComputeLayout(image_size[1], image_size[2],
                                 page_size[1], page_size[2])>>
    /\ pc' = "pdf_full_draw"
    /\ UNCHANGED <<inputs, storage, quadrants, cropped, quad_index, pages,
                   pdf_created, analysisLocals, analysis_response,
                   download_offered, escaped>>

Page(source, size, caption) ==
    [source |-> source, size |-> size, layout |-> layout[1], caption |-> caption]

\* Page 1: drawImage reads the pixel data, then drawString and showPage.
PdfFullDraw ==
    /\ pc = "pdf_full_draw"
    /\ IF image_file = "truncated"
       THEN Raise("create_plan_pdf") /\ UNCHANGED pages
       ELSE /\ pages' = Append(pages, Page("full", image_size, FullCaption))
            /\ pc' = "pdf_crop"
            /\ UNCHANGED escaped
    /\ UNCHANGED <<inputs, storage, quadrants, cropped, layout, quad_index,
                   pdf_created, analysisLocals, analysis_response,
                   download_offered>>

\* The loop head and the crop of the next quadrant.
PdfCrop ==
    /\ pc = "pdf_crop"
    /\ IF quad_index < Len(quadrant_order)
       THEN /\ cropped' = CropSize(quadrants[1][quadrant_order[quad_index + 1]])
            /\ pc' = "pdf_quad_layout"
       ELSE /\ pc' = "pdf_save"
            /\ UNCHANGED cropped
    /\ UNCHANGED <<inputs, storage, quadrants, layout, quad_index, pages,
                   pdf_created, analysisLocals, analysis_response,
                   download_offered, escaped>>

\* The quadrant's draw rectangle; a crop of height 0 divides by zero.
PdfQuadLayout ==
    /\ pc = "pdf_quad_layout"
    /\ IF cropped[2] = 0
       THEN Raise("create_plan_pdf") /\ UNCHANGED layout
       ELSE /\ layout' = <<ComputeLayout(cropped[1], cropped[2],
                                         page_size[1], page_size[2])>>
            /\ pc' = "pdf_quad_draw"
            /\ UNCHANGED escaped
    /\ UNCHANGED <<inputs, storage, quadrants, cropped, quad_index, pages,
                   pdf_created, analysisLocals, analysis_response,
                   download_offered>>

\* The quadrant's page. Whether reportlab draws or rejects an image of
\* width 0 is not decided by this repository: either may happen.
PdfQuadDraw ==
    /\ pc = "pdf_quad_draw"
    /\ \E drawn \in BOOLEAN :
         /\ cropped[1] > 0 => drawn
         /\ IF drawn
            THEN /\ pages' = Append(pages,
                        Page(quadrant_order[quad_index + 1], cropped,
                             quadrant_labels[quadrant_order[quad_index + 1]]))
                 /\ quad_index' = quad_index + 1
                 /\ pc' = "pdf_crop"
                 /\ UNCHANGED escaped
            ELSE Raise("create_plan_pdf") /\ UNCHANGED <<pages, quad_index>>
    /\ UNCHANGED <<inputs, storage, quadrants, cropped, layout, pdf_created,
                   analysisLocals, analysis_response, download_offered>>

\* c.save() writes the document.
PdfSave ==
    /\ pc = "pdf_save"
    /\ pdf_file' = "document"
    /\ pc' = "pdf_return"
    /\ UNCHANGED <<inputs, image_file, pdfLocals, pdf_created, analysisLocals,
                   analysis_response, download_offered, escaped>>

\* st.success and return True.
PdfReturn ==
    /\ pc = "pdf_return"
    /\ ReturnFromCreate(TRUE)
    /\ UNCHANGED <<inputs, storage, pdfLocals, analysisLocals,
                   analysis_response, download_offered, escaped>>

CreatePlanPdf ==
    \/ PdfOpen \/ PdfConvert \/ PdfQuadrants \/ PdfFullLayout \/ PdfFullDraw
    \/ PdfCrop \/ PdfQuadLayout \/ PdfQuadDraw \/ PdfSave \/ PdfReturn

\* ----------------------------------------------------- get_plan_analysis
ApiKeyError == "Error: Gemini API key not provided."
PdfNotFoundError == "Error: PDF file not found"
EmptyPromptError == "Error: Prompt text cannot be empty."
GeminiError == "Error interacting with Gemini API"
ResponseText == "response.text"

ReturnFromAnalysis(value) ==
    /\ analysis_response' = <<value>>
    /\ pc' = IF entry = "main" THEN "main_display" ELSE "done"

\* An alternative order: the client is constructed before the checks.
AnChecksLate ==
    /\ pc = "an_checks"
    /\ client' = TRUE
    /\ IF gemini_api_key = "" THEN ReturnFromAnalysis(ApiKeyError)
       ELSE IF pdf_file = "absent" THEN ReturnFromAnalysis(PdfNotFoundError)
       ELSE IF Strip(custom_prompt) = <<>> THEN ReturnFromAnalysis(EmptyPromptError)
       ELSE pc' = "an_client" /\ UNCHANGED analysis_response
    /\ UNCHANGED <<inputs, storage, pdfLocals, pdf_created, requests,
                   download_offered, escaped>>

\* The three precondition checks, each returning its error string.
AnChecks ==
    /\ pc = "an_checks"
    /\ IF gemini_api_key = "" THEN ReturnFromAnalysis(ApiKeyError)
       ELSE IF pdf_file = "absent" THEN ReturnFromAnalysis(PdfNotFoundError)
       ELSE IF Strip(custom_prompt) = <<>> THEN ReturnFromAnalysis(EmptyPromptError)
       ELSE pc' = "an_client" /\ UNCHANGED analysis_response
    /\ UNCHANGED <<inputs, storage, pdfLocals, pdf_created, analysisLocals,
                   download_offered, escaped>>

\* genai.Client(api_key=...), outside the try.
AnClient ==
    /\ pc = "an_client"
    /\ client' = TRUE
    /\ pc' = "an_read"
    /\ UNCHANGED <<inputs, storage, pdfLocals, pdf_created, requests,
                   analysis_response, download_offered, escaped>>

\* read_bytes and the request parts, outside the try: a path that exists
\* but is a directory raises IsADirectoryError.
AnRead ==
    /\ pc = "an_read"
    /\ IF pdf_file = "directory"
       THEN Raise("get_plan_analysis")
       ELSE pc' = "an_generate" /\ UNCHANGED escaped
    /\ UNCHANGED <<inputs, storage, pdfLocals, pdf_created, analysisLocals,
                   analysis_response, download_offered>>

\* generate_content inside the try: the text, or the error string.
AnGenerate ==
    /\ pc = "an_generate"
    /\ requests' = requests + 1
    /\ \E ok \in BOOLEAN :
         ReturnFromAnalysis(IF ok THEN ResponseText ELSE GeminiError)
    /\ UNCHANGED <<inputs, storage, pdfLocals, pdf_created, client,
                   download_offered, escaped>>

GetPlanAnalysis == AnChecks \/ AnClient \/ AnRead \/ AnGenerate

\* ------------------------------------------------------------------ main
\* The API key from the environment or the form; without one main returns.
MainKey ==
    /\ pc = "main_key"
    /\ pc' = IF gemini_api_key = "" THEN "done" ELSE "main_upload"
    /\ UNCHANGED <<inputs, storage, pdfLocals, pdf_created, analysisLocals,
                   analysis_response, download_offered, escaped>>

\* The upload test and st.image. Whether Streamlit shows or rejects bytes
\* PIL cannot fully decode is not decided by this repository.
MainUpload ==
    /\ pc = "main_upload"
    /\ IF uploaded_file = "none"
       THEN pc' = "done" /\ UNCHANGED escaped
       ELSE \E shown \in BOOLEAN :
              /\ uploaded_file = "image" => shown
              /\ IF shown
                 THEN pc' = "main_temps" /\ UNCHANGED escaped
                 ELSE Raise("main")
    /\ UNCHANGED <<inputs, storage, pdfLocals, pdf_created, analysisLocals,
                   analysis_response, download_offered>>

\* The two NamedTemporaryFile(delete=False): the image and an empty PDF.
MainTemps ==
    /\ pc = "main_temps"
    /\ image_file' = uploaded_file
    /\ pdf_file' = "empty"
    /\ pc' = "main_button"
    /\ UNCHANGED <<inputs, pdfLocals, pdf_created, analysisLocals,
                   analysis_response, download_offered, escaped>>

\* st.button: pressed, main calls create_plan_pdf; otherwise the run ends.
MainButton ==
    /\ pc = "main_button"
    /\ pc' = IF button THEN "pdf_open" ELSE "done"
    /\ UNCHANGED <<inputs, storage, pdfLocals, pdf_created, analysisLocals,
                   analysis_response, download_offered, escaped>>

\* An alternative test: the result of create_plan_pdf is ignored.
MainCreatedIgnored ==
    /\ pc = "main_created"
    /\ pc' = "main_download"
    /\ UNCHANGED <<inputs, storage, pdfLocals, pdf_created, analysisLocals,
                   analysis_response, download_offered, escaped>>

\* if pdf_created:
MainCreated ==
    /\ pc = "main_created"
    /\ pc' = IF pdf_created = <<TRUE>> THEN "main_download" ELSE "main_cleanup"
    /\ UNCHANGED <<inputs, storage, pdfLocals, pdf_created, analysisLocals,
                   analysis_response, download_offered, escaped>>

\* The download button, then the call of get_plan_analysis.
MainDownload ==
    /\ pc = "main_download"
    /\ download_offered' = TRUE
    /\ pc' = "an_checks"
    /\ UNCHANGED <<inputs, storage, pdfLocals, pdf_created, analysisLocals,
                   analysis_response, escaped>>

\* st.write(analysis_response)
MainDisplay ==
    /\ pc = "main_display"
    /\ pc' = "main_cleanup"
    /\ UNCHANGED <<inputs, storage, pdfLocals, pdf_created, analysisLocals,
                   analysis_response, download_offered, escaped>>

\* os.remove of both temporary files, inside the button's block.
MainCleanup ==
    /\ pc = "main_cleanup"
    /\ image_file' = "missing"
    /\ pdf_file' = "absent"
    /\ pc' = "done"
    /\ UNCHANGED <<inputs, pdfLocals, pdf_created, analysisLocals,
                   analysis_response, download_offered, escaped>>

Main ==
    \/ MainKey \/ MainUpload \/ MainTemps \/ MainButton \/ MainCreated
    \/ MainDownload \/ MainDisplay \/ MainCleanup

Next == CreatePlanPdf \/ GetPlanAnalysis \/ Main

Spec == Init /\ [][Next]_vars

\* ---------------------------------------------------------------- claims
RAdd(a, b) == <<a[1] * b[2] + b[1] * a[2], a[2] * b[2]>>

\* Every draw rectangle the run has computed: one per page shown, and the
\* one waiting to be drawn.
Layouts ==
    {pages[i].layout : i \in DOMAIN pages} \cup {layout[i] : i \in DOMAIN layout}

InsidePage(l) ==
    LET pdf_width == RInt(page_size[1])
        pdf_height == RInt(page_size[2])
    IN /\ RLe(l.draw_width, pdf_width)
       /\ RLe(l.draw_height, pdf_height)
       /\ REq(l.draw_width, pdf_width) \/ REq(l.draw_height, pdf_height)
       /\ RLe(RInt(0), l.x_offset)
       /\ RLe(RAdd(l.x_offset, l.draw_width), pdf_width)
       /\ RLe(RInt(0), l.y_offset)
       /\ RLe(RAdd(l.y_offset, l.draw_height), pdf_height)

\* C1: every draw rectangle computed for the full image or a quadrant crop
\* lies inside the page: draw_width <= pdf_width, draw_height <= pdf_height
\* with equality on at least one axis, and both offsets are >= 0 with
\* offset + draw size <= page size.
C1_DrawRectangleInsidePage == \A l \in Layouts : InsidePage(l)

WidthConstrained(l) ==
    /\ REq(l.draw_width, RInt(page_size[1]))
    /\ ~REq(l.draw_height, RInt(page_size[2]))

HeightConstrained(l) ==
    /\ REq(l.draw_height, RInt(page_size[2]))
    /\ ~REq(l.draw_width, RInt(page_size[1]))

\* A finished five-page document on a page that is not A4, holding a page of
\* each branch with slack on the other axis.
C1_Witness ==
    /\ Len(pages) = 5
    /\ page_size # A4
    /\ \E i \in DOMAIN pages : WidthConstrained(pages[i].layout)
    /\ \E i \in DOMAIN pages : HeightConstrained(pages[i].layout)

\* C2: every page keeps its source's aspect ratio:
\* draw_width * source height = draw_height * source width.
C2_AspectRatioPreserved ==
    \A i \in DOMAIN pages :
        REq(RMul(pages[i].layout.draw_width, RInt(pages[i].size[2])),
            RMul(pages[i].layout.draw_height, RInt(pages[i].size[1])))

\* A quadrant page whose crop has another aspect ratio than the full image
\* and a page of each branch, in the script's own A4 run.
C2_Witness ==
    /\ entry = "main"
    /\ Len(pages) = 5
    /\ \E i \in DOMAIN pages :
         pages[i].size[1] * image_size[2] # pages[i].size[2] * image_size[1]
    /\ \E i \in DOMAIN pages : REq(pages[i].layout.draw_width, RInt(page_size[1]))
    /\ \E i \in DOMAIN pages : REq(pages[i].layout.draw_height, RInt(page_size[2]))

InBox(x, y, box) == box[1] <= x /\ x < box[3] /\ box[2] <= y /\ y < box[4]

\* C3: the four quadrant boxes partition the image: each pixel of
\* [0, img_width) x [0, img_height) lies in exactly one box, and no box
\* reaches outside the image.
C3_QuadrantsPartitionImage ==
    \A i \in DOMAIN quadrants :
        /\ \A x \in 0..(image_size[1] - 1), y \in 0..(image_size[2] - 1) :
             Cardinality({k \in QuadKeys : InBox(x, y, quadrants[i][k])}) = 1
        /\ \A k \in QuadKeys :
             /\ 0 <= quadrants[i][k][1] /\ quadrants[i][k][3] <= image_size[1]
             /\ 0 <= quadrants[i][k][2] /\ quadrants[i][k][4] <= image_size[2]

\* The quadrants of an image whose sides are both odd and at least 3.
C3_Witness ==
    /\ quadrants # <<>>
    /\ image_size[1] % 2 = 1 /\ image_size[1] >= 3
    /\ image_size[2] % 2 = 1 /\ image_size[2] >= 3

\* C4: no exception leaves create_plan_pdf, and an image that cannot be
\* opened gives the return value False with no document written.
C4_CreateNeverRaises ==
    /\ escaped # "create_plan_pdf"
    /\ (entry = "create_plan_pdf" /\ image_file \in {"missing", "corrupt"})
         => (pdf_file = "absent" /\ pdf_created \in {<<>>, <<FALSE>>})

\* C5: a run of main that has ended, however it ended, has left neither
\* its temporary image file nor its temporary document file on storage.
C5_TempFilesDeleted ==
    (entry = "main" /\ pc \in {"done", "crashed"})
        => (image_file = "missing" /\ pdf_file = "absent")

\* C6: the aspect-ratio computation is reached only with a strictly
\* positive width and height, for the full image and for every crop.
C6_LayoutInputsPositive ==
    /\ pc = "pdf_full_layout" => (image_size[1] > 0 /\ image_size[2] > 0)
    /\ pc = "pdf_quad_layout" => (cropped[1] > 0 /\ cropped[2] > 0)

AnalysisPcs == {"an_checks", "an_client", "an_read", "an_generate"}

\* A precondition of get_plan_analysis fails on its arguments.
PreconditionFails ==
    \/ gemini_api_key = ""
    \/ pdf_file = "absent"
    \/ Strip(custom_prompt) = <<>>

\* The run is inside get_plan_analysis or has just returned from it (main
\* has not yet removed the document).
AnalysisScope ==
    \/ entry = "get_plan_analysis"
    \/ entry = "main" /\ pc \in AnalysisPcs \cup {"main_display"}

\* C7: when a precondition of get_plan_analysis fails, no client is
\* constructed, no request is sent, and the value returned is one of the
\* three precondition error strings.
C7_ChecksBeforeClient ==
    (AnalysisScope /\ PreconditionFails) =>
        /\ ~client
        /\ requests = 0
        /\ pc \notin {"an_client", "an_read", "an_generate"}
        /\ analysis_response \in
             {<<>>, <<ApiKeyError>>, <<PdfNotFoundError>>, <<EmptyPromptError>>}

\* get_plan_analysis has returned the empty-prompt error for a prompt of
\* blanks only, with a key and a document present.
C7_Witness ==
    /\ custom_prompt # <<>>
    /\ Strip(custom_prompt) = <<>>
    /\ gemini_api_key # ""
    /\ pdf_file = "document"
    /\ analysis_response = <<EmptyPromptError>>

\* C8: no exception leaves get_plan_analysis: once the checks have passed
\* the run ends with a string returned.
C8_AnalysisNeverRaises == escaped # "get_plan_analysis"

ExpectedSources == <<"full", "upper_left", "upper_right", "lower_left", "lower_right">>

ExpectedCaptions ==
    <<"Page 1: Full Plan Overview",
      "Page 2: Upper-Left Quadrant Detail",
      "Page 3: Upper-Right Quadrant Detail",
      "Page 4: Lower-Left Quadrant Detail",
      "Page 5: Lower-Right Quadrant Detail">>

FivePagesInOrder ==
    /\ Len(pages) = 5
    /\ \A i \in 1..5 :
         /\ pages[i].source = ExpectedSources[i]
         /\ pages[i].caption = ExpectedCaptions[i]

\* The document at output_pdf_path was written by this run's c.save().
Saved == entry # "get_plan_analysis" /\ pdf_file = "document"

\* C9: a document reported as created, and any document saved, holds
\* exactly the five pages full, upper-left, upper-right, lower-left,
\* lower-right, each with its caption; a True return follows the save (the
\* document staying on storage until main's cleanup removes it).
C9_FivePagesThenSave ==
    /\ (Saved \/ pc = "pdf_return" \/ pdf_created = <<TRUE>>) => FivePagesInOrder
    /\ pdf_created = <<TRUE>> => (Saved \/ (entry = "main" /\ pc = "done"))

\* create_plan_pdf has returned True and the document is on storage.
C9_Witness == pdf_created = <<TRUE>> /\ Saved

\* C10: in main, the download offer and every step of get_plan_analysis
\* happen only after create_plan_pdf returned True.
C10_AnalysisOnlyAfterSuccess ==
    (entry = "main" /\ (\/ download_offered
                        \/ pc \in AnalysisPcs \cup {"main_download", "main_display"}
                        \/ analysis_response # <<>>
                        \/ client
                        \/ requests > 0))
        => pdf_created = <<TRUE>>

\* A submit whose create_plan_pdf returned False has run to its end.
C10_Witness ==
    /\ entry = "main"
    /\ pdf_created = <<FALSE>>
    /\ pc = "done"
====
